---- MODULE Spec2Model ----
(***************************************************************************)
(* Model of the ciseaux_client connection pool (src/src/single.rs):        *)
(* SingleBuilder::build, CiseauxSingle::query_cmd / query_pipe and         *)
(* CiseauxSingle::try_reconnect, with the redis client (connection         *)
(* factory), the connections and the tasks dropping their futures as the   *)
(* environment.                                                            *)
(***************************************************************************)
EXTENDS Integers, Sequences, FiniteSets, TLC

(* ------------------------------- bounds -------------------------------- *)
\* largest value given to ConnectionsCount::Global
MaxConns == 2
\* number of calls (query_cmd / query_pipe) started over a run
MaxCalls == 3
\* number of tasks sharing the pool
NumCallers == 2
\* value num_cpus::get() returns on the modelled machine
NumCpus == 1
\* width of the modelled usize cursor, and its modulus
CursorBits == 4
CursorMod == 2 ^ CursorBits

\* Duration::from_secs(2), the default delay of RetryWaitRetry
DefaultWaitSecs == 2

Callers == 1 .. NumCallers

(* ------------------------------- errors -------------------------------- *)
\* RedisError kinds a command or the factory can return
NetKinds == {"timeout", "dropped", "io"}
AppKinds == {"response", "auth"}

is_timeout(e) == e.kind = "timeout"
is_connection_dropped(e) == e.kind = "dropped"
is_io_error(e) == e.kind = "io"

\* mutant: every error counts as a network error
is_any_error(e) == e.kind # "-"

\* mutant: the is_io_error test is missing
is_network_error_only(e) ==
    IF is_timeout(e) \/ is_connection_dropped(e) THEN TRUE ELSE FALSE

\* fn is_network_or_io_error
is_network_or_io_error(e) ==
    IF is_timeout(e) \/ is_connection_dropped(e) \/ is_io_error(e)
    THEN TRUE
    ELSE FALSE

(* ---------------------------- configuration ---------------------------- *)
\* Option<ConnectionsCount> values handed to the builder
CountConfigs ==
    [tag : {"Global"}, v : 0 .. MaxConns] \cup [tag : {"PerThread"}, v : {1}]

\* Option<Duration> of RetryWaitRetry: None, or Some(seconds)
NoDuration == [some |-> FALSE, secs |-> 0]
DurationOpts == {NoDuration, [some |-> TRUE, secs |-> 1]}

\* ReconnectBehavior values
NoReconnect == [kind |-> "NoReconnect", d |-> NoDuration]
InstantRetry == [kind |-> "InstantRetry", d |-> NoDuration]
RetryWaitRetry(d) == [kind |-> "RetryWaitRetry", d |-> d]
ReconnectBehavior ==
    {NoReconnect, InstantRetry} \cup {RetryWaitRetry(d) : d \in DurationOpts}

\* Option<ReconnectBehavior> of the builder; "Unset" is None
Unset == [kind |-> "Unset", d |-> NoDuration]
BehaviorConfigs == {Unset} \cup ReconnectBehavior

\* the match on self.conns_count in build
into_flat(c) ==
    IF c.tag = "Global" THEN c.v ELSE NumCpus * c.v

\* the match on self.reconnect_behavior in build
ResolveBehavior(b) ==
    IF b = Unset THEN InstantRetry ELSE b

\* mutant: the configured delay is ignored
WaitSecsAlwaysDefault(d) == DefaultWaitSecs

\* d.unwrap_or(Duration::from_secs(2))
WaitSecs(d) ==
    IF d.some THEN d.secs ELSE DefaultWaitSecs

(* -------------------------------- state -------------------------------- *)
VARIABLES
    conns_count,          \* builder field conns_count
    cfg_behavior,         \* builder field reconnect_behavior
    bpc,                  \* "building", "built" (Ok(pool)) or "failed" (Err)
    results,              \* build: outcome of each get_async_connection future
    build_err,            \* the error build returned
    held,                 \* number of connection objects the program holds
    reconnect_behavior,   \* pool field reconnect_behavior
    conns,                \* pool field conns: the connection of each slot
    next,                 \* pool field next: the round-robin cursor
    holders,              \* per slot, the tasks holding a MutexGuard on it
    pc,                   \* per task, its position in query_cmd/query_pipe
    slot,                 \* per task, the index it computed (-1: none)
    bad,                  \* per task, the command is one the server rejects
    base,                 \* per task, the gen of its slot's connection when it
                          \* took the lock
    trace,                \* per task, the attempts of its current/last call
    ret,                  \* per task, what its last call returned
    selected,             \* the indices computed by the calls, in cursor order
    ticket,               \* per task, the cursor value its current/last call
                          \* got from fetch_add (-1: none)
    cmd,                  \* per task, the command of its current/last call
    store,                \* the service: the value it holds for the key
    applied,              \* per task, how often the service has executed the
                          \* command of its current/last call
    reply,                \* per task, the value in the Ok of its last call
    written,              \* per task, the value its last completed SET wrote,
                          \* while no other task has written since
    healthy,              \* the network, the service and the factory have
                          \* stopped failing
    healed_at             \* number of calls started before they did

vars == <<conns_count, cfg_behavior, bpc, results, build_err, held,
          reconnect_behavior, conns, next, holders, pc, slot, bad, base,
          trace, ret, selected, ticket, cmd, store, applied, reply, written,
          healthy, healed_at>>

buildVars == <<conns_count, cfg_behavior, bpc, results, build_err,
               reconnect_behavior>>
callVars == <<pc, slot, bad, base, trace, ret>>
\* what a call fixes when it starts, and what a command changes when the
\* service executes it
startVars == <<ticket, cmd>>
execVars == <<store, applied, reply, written>>
healVars == <<healthy, healed_at>>

\* the commands of the callers: GET of the key, SET of the key to a value
Nil == "nil"
Vals == {"a", "b"}
GetCmd == [op |-> "get", v |-> Nil]
SetCmd(v) == [op |-> "set", v |-> v]
Commands == {GetCmd} \cup {SetCmd(v) : v \in Vals}

NoError == [kind |-> "-", at |-> 0]
NoRet == [status |-> "none", kind |-> "-", at |-> 0]
RetOk == [status |-> "ok", kind |-> "-", at |-> 0]
RetErr(e) == [status |-> "err", kind |-> e.kind, at |-> e.at]
RetCancelled == [status |-> "cancelled", kind |-> "-", at |-> 0]

\* the class of an outcome: "ok", a network-class error, or another error
Class(r) ==
    IF r = "ok" THEN "ok" ELSE IF r \in NetKinds THEN "net" ELSE "app"

\* one attempt of a call: a command (n: how many times the slot's connection
\* was replaced since the call took the lock), a factory call, or a delay
CmdEv(r, n) == [ev |-> "cmd", res |-> Class(r), secs |-> 0, conn |-> n]
ConnectEv(r) == [ev |-> "connect", res |-> Class(r), secs |-> 0, conn |-> 0]
WaitEv(s) == [ev |-> "wait", res |-> "-", secs |-> s, conn |-> 0]

\* a freshly opened connection (gen counts the replacements of the slot's
\* connection), and self.conns.len()
NewConn(g) == [gen |-> g, state |-> "up"]
NumSlots == Cardinality(DOMAIN conns)

Init ==
    /\ conns_count \in CountConfigs
    /\ cfg_behavior \in BehaviorConfigs
    /\ bpc = "building"
    /\ results = [i \in 0 .. into_flat(conns_count) - 1 |-> "pending"]
    /\ build_err = NoError
    /\ held = 0
    /\ reconnect_behavior = Unset
    /\ conns = <<>>
    /\ next = 0
    /\ holders = <<>>
    /\ pc = [p \in Callers |-> "idle"]
    /\ slot = [p \in Callers |-> -1]
    /\ bad = [p \in Callers |-> FALSE]
    /\ base = [p \in Callers |-> 0]
    /\ trace = [p \in Callers |-> <<>>]
    /\ ret = [p \in Callers |-> NoRet]
    /\ selected = <<>>
    /\ ticket = [p \in Callers |-> -1]
    /\ cmd = [p \in Callers |-> GetCmd]
    /\ store = Nil
    /\ applied = [p \in Callers |-> 0]
    /\ reply = [p \in Callers |-> Nil]
    /\ written = [p \in Callers |-> Nil]
    /\ healthy = FALSE
    /\ healed_at = 0

(* -------------------------------- build -------------------------------- *)
\* outcomes of client.get_async_connection()
FactoryOutcomes == {"ok", "io", "auth"}

\* one of the futures joined by join_all completes
BuildConnect(i, r) ==
    /\ bpc = "building"
    /\ i \in DOMAIN results
    /\ results[i] = "pending"
    /\ results' = [results EXCEPT ![i] = r]
    /\ held' = IF r = "ok" THEN held + 1 ELSE held
    /\ UNCHANGED <<conns_count, cfg_behavior, bpc, build_err,
                   reconnect_behavior, conns, next, holders, selected>>
    /\ UNCHANGED healVars
    /\ UNCHANGED callVars
    /\ UNCHANGED <<startVars, execVars>>

\* mutant: the last Err among the joined results is the one propagated
LastErr(rs) ==
    IF \E i \in DOMAIN rs : rs[i] # "ok"
    THEN CHOOSE i \in DOMAIN rs :
            /\ rs[i] # "ok"
            /\ \A j \in DOMAIN rs : rs[j] # "ok" => j <= i
    ELSE -1

\* index of the first Err among the joined results (-1: none)
FirstErr(rs) ==
    IF \E i \in DOMAIN rs : rs[i] # "ok"
    THEN CHOOSE i \in DOMAIN rs :
            /\ rs[i] # "ok"
            /\ \A j \in DOMAIN rs : rs[j] # "ok" => i <= j
    ELSE -1

\* futures::future::join_all(conns_fut).await returns when every future has
AllJoined(rs) == \A i \in DOMAIN rs : rs[i] # "pending"

\* join_all has returned: the loop `conns.push(Arc::new(Mutex::new(c?)))`
\* and the construction of the pool
BuildFinish ==
    /\ bpc = "building"
    /\ AllJoined(results)
    /\ IF FirstErr(results) = -1
       THEN /\ bpc' = "built"
            /\ reconnect_behavior' = ResolveBehavior(cfg_behavior)
            /\ conns' = [i \in DOMAIN results |-> NewConn(0)]
            /\ holders' = [i \in DOMAIN results |-> {}]
            /\ next' = 0
            /\ UNCHANGED <<build_err, held>>
       ELSE /\ bpc' = "failed"
            /\ build_err' = [kind |-> results[FirstErr(results)],
                             at |-> FirstErr(results)]
            /\ held' = 0
            /\ UNCHANGED <<reconnect_behavior, conns, holders, next>>
    /\ UNCHANGED <<conns_count, cfg_behavior, results, selected>>
    /\ UNCHANGED healVars
    /\ UNCHANGED callVars
    /\ UNCHANGED <<startVars, execVars>>

(* ----------------------------- environment ----------------------------- *)
\* the socket of the connection in slot i breaks; its commands then fail
\* with a network-class error
Kill(i) ==
    /\ bpc = "built"
    /\ i \in DOMAIN conns
    /\ conns[i].state = "up"
    /\ conns' = [conns EXCEPT ![i].state = "down"]
    /\ UNCHANGED <<held, next, holders, selected>>
    /\ UNCHANGED buildVars
    /\ UNCHANGED healVars
    /\ UNCHANGED callVars
    /\ UNCHANGED <<startVars, execVars>>

(* ----------------------------- query_cmd ------------------------------- *)
\* mutant: the index is taken from the incremented cursor
SlotIndexAfterAdd(cursor, n) == (cursor + 1) % n

\* self.next.fetch_add(1, Ordering::AcqRel) % self.conns.len()
SlotIndex(cursor, n) == cursor % n

\* mutant: the cursor is read and not advanced
FetchAddStuck(cursor) == cursor

\* AtomicUsize::fetch_add wraps around on overflow
FetchAdd(cursor) == (cursor + 1) % CursorMod

\* mutant: one lock for the whole pool instead of one per slot
LockPoolFree(i) == \A j \in DOMAIN holders : holders[j] = {}

\* mutant: lock() completes although a guard on the slot exists
LockNeverBusy(i) == holders[i] = holders[i]

\* Mutex::lock() completes only when no guard on the slot exists
LockFree(i) == holders[i] = {}

\* mutant: a future that ends frees the lock of its slot, its own or not
ReleaseSlot(p) == [i \in DOMAIN holders |-> IF i = slot[p] THEN {} ELSE holders[i]]

\* mutant: the guard outlives the call
ReleaseNothing(p) == holders

\* dropping the MutexGuard of task p when its future ends
Release(p) == [i \in DOMAIN holders |-> holders[i] \ {p}]

\* cmd.query_async(&mut conn): what the connection answers; k is the kind of
\* error a broken socket gives this time
QueryOutcome(c, b, k) ==
    IF c.state # "up" THEN k
    ELSE IF b THEN "response" ELSE "ok"

\* the error value produced by the attempt just appended to the trace
ErrAt(p, k) == [kind |-> k, at |-> Len(trace[p]) + 1]

\* the call of task p returns r: its future, and the guard in it, is dropped
Return(p, r) ==
    /\ pc' = [pc EXCEPT ![p] = "idle"]
    /\ ret' = [ret EXCEPT ![p] = r]
    /\ holders' = Release(p)
    /\ slot' = [slot EXCEPT ![p] = -1]
    /\ bad' = [bad EXCEPT ![p] = FALSE]
    /\ base' = [base EXCEPT ![p] = 0]

\* the call of task p goes on at position l, still holding its guard
Goto(p, l) ==
    /\ pc' = [pc EXCEPT ![p] = l]
    /\ UNCHANGED <<ret, holders, slot, bad, base>>

\* entry of query_cmd (of query_pipe, the same code on a redis::Pipeline)
\* with the command c, which the server rejects (b) or not: the fetch_add and
\* the index computation
Start(p, b, c) ==
    /\ bpc = "built"
    /\ pc[p] = "idle"
    /\ Len(selected) < MaxCalls
    /\ next' = FetchAdd(next)
    /\ ticket' = [ticket EXCEPT ![p] = next]
    /\ cmd' = [cmd EXCEPT ![p] = c]
    /\ applied' = [applied EXCEPT ![p] = 0]
    /\ reply' = [reply EXCEPT ![p] = Nil]
    /\ UNCHANGED <<store, written>>
    /\ trace' = [trace EXCEPT ![p] = <<>>]
    /\ ret' = [ret EXCEPT ![p] = NoRet]
    /\ IF NumSlots = 0
       THEN \* remainder with a divisor of zero: the task panics
            /\ pc' = [pc EXCEPT ![p] = "panicked"]
            /\ UNCHANGED <<slot, bad, selected>>
       ELSE /\ pc' = [pc EXCEPT ![p] = "lock"]
            /\ bad' = [bad EXCEPT ![p] = b]
            /\ slot' = [slot EXCEPT ![p] = SlotIndex(next, NumSlots)]
            /\ selected' = Append(selected, SlotIndex(next, NumSlots))
    /\ UNCHANGED <<held, conns, holders, base>>
    /\ UNCHANGED buildVars
    /\ UNCHANGED healVars

\* .lock().await completes
Acquire(p) ==
    /\ pc[p] = "lock"
    /\ LockFree(slot[p])
    /\ holders' = [holders EXCEPT ![slot[p]] = @ \cup {p}]
    /\ pc' = [pc EXCEPT ![p] = "query1"]
    /\ base' = [base EXCEPT ![p] = conns[slot[p]].gen]
    /\ UNCHANGED <<held, conns, next, selected, slot, bad, trace, ret>>
    /\ UNCHANGED <<startVars, execVars>>
    /\ UNCHANGED buildVars
    /\ UNCHANGED healVars

\* mutant: the old connection is given up before the factory has answered, so
\* a failed attempt leaves the slot with neither the old nor a new one
try_reconnect_drop_first(p, r) ==
    /\ trace' = [trace EXCEPT ![p] = Append(@, ConnectEv(r))]
    /\ conns' = [conns EXCEPT ![slot[p]] =
                    IF r = "ok" THEN NewConn(@.gen + 1)
                    ELSE [gen |-> @.gen + 1, state |-> "down"]]
    /\ held' = held

\* mutant: a successful reconnect replaces the connection of every slot
try_reconnect_all_slots(p, r) ==
    /\ trace' = [trace EXCEPT ![p] = Append(@, ConnectEv(r))]
    /\ IF r = "ok"
       THEN /\ conns' = [i \in DOMAIN conns |-> NewConn(conns[i].gen + 1)]
            /\ held' = held
       ELSE UNCHANGED <<conns, held>>

\* mutant: the new connection is dropped instead of stored in the slot
try_reconnect_no_store(p, r) ==
    /\ trace' = [trace EXCEPT ![p] = Append(@, ConnectEv(r))]
    /\ UNCHANGED <<conns, held>>

\* try_reconnect with factory outcome r: `*conn = c` on Ok (the old
\* connection is dropped), the guard handed back untouched on Err
try_reconnect(p, r) ==
    /\ trace' = [trace EXCEPT ![p] = Append(@, ConnectEv(r))]
    /\ IF r = "ok"
       THEN /\ conns' = [conns EXCEPT ![slot[p]] = NewConn(@.gen + 1)]
            /\ held' = held + 1 - 1
       ELSE UNCHANGED <<conns, held>>

\* the service executes the command of task p and answers it: every
\* connection of the pool comes from the one client, so from one service
ServiceExecutes(p) ==
    /\ applied' = [applied EXCEPT ![p] = @ + 1]
    /\ IF cmd[p].op = "set"
       THEN /\ store' = cmd[p].v
            /\ written' = [q \in Callers |-> IF q = p THEN cmd[p].v ELSE Nil]
            /\ reply' = [reply EXCEPT ![p] = Nil]
       ELSE /\ reply' = [reply EXCEPT ![p] = store]
            /\ UNCHANGED <<store, written>>

\* a command attempt on the slot's current connection
query_async(p, k) ==
    /\ trace' = [trace EXCEPT
                    ![p] = Append(@, CmdEv(QueryOutcome(conns[slot[p]], bad[p], k),
                                           conns[slot[p]].gen - base[p]))]
    /\ IF QueryOutcome(conns[slot[p]], bad[p], k) = "ok"
       THEN ServiceExecutes(p)
       ELSE UNCHANGED execVars
    /\ UNCHANGED startVars
    /\ UNCHANGED <<conns, held>>

\* mutant: RetryWaitRetry takes the arm of InstantRetry
MatchBehaviorRetryWaitRetryInstant(p, e) ==
    CASE reconnect_behavior.kind = "NoReconnect" -> Return(p, RetErr(e))
      [] reconnect_behavior.kind = "InstantRetry" -> Goto(p, "ir_reconnect")
      [] reconnect_behavior.kind = "RetryWaitRetry" -> Goto(p, "ir_reconnect")

\* mutant: NoReconnect takes the arm of InstantRetry
MatchBehaviorNoReconnectRetries(p, e) ==
    CASE reconnect_behavior.kind = "NoReconnect" -> Goto(p, "ir_reconnect")
      [] reconnect_behavior.kind = "InstantRetry" -> Goto(p, "ir_reconnect")
      [] reconnect_behavior.kind = "RetryWaitRetry" -> Goto(p, "rwr_reconnect1")

\* mutant: InstantRetry takes the arm of NoReconnect
MatchBehaviorInstantGivesUp(p, e) ==
    CASE reconnect_behavior.kind = "NoReconnect" -> Return(p, RetErr(e))
      [] reconnect_behavior.kind = "InstantRetry" -> Return(p, RetErr(e))
      [] reconnect_behavior.kind = "RetryWaitRetry" -> Goto(p, "rwr_reconnect1")

\* `match *self.reconnect_behavior` on the first network-class error e
MatchBehavior(p, e) ==
    CASE reconnect_behavior.kind = "NoReconnect" -> Return(p, RetErr(e))
      [] reconnect_behavior.kind = "InstantRetry" -> Goto(p, "ir_reconnect")
      [] reconnect_behavior.kind = "RetryWaitRetry" -> Goto(p, "rwr_reconnect1")

\* mutant: an Ok of the first attempt is not returned; the call goes on as
\* after a network error and sends the command again
Query1RetriesAfterOk(p, k) ==
    /\ pc[p] = "query1"
    /\ query_async(p, k)
    /\ LET r == QueryOutcome(conns[slot[p]], bad[p], k)
           e == ErrAt(p, r)
       IN IF r = "ok" \/ is_network_or_io_error(e)
          THEN MatchBehavior(p, e)
          ELSE Return(p, RetErr(e))
    /\ UNCHANGED <<next, selected>>
    /\ UNCHANGED buildVars
    /\ UNCHANGED healVars

\* the first attempt (lines 102-110) and the match on the policy
Query1(p, k) ==
    /\ pc[p] = "query1"
    /\ query_async(p, k)
    /\ LET r == QueryOutcome(conns[slot[p]], bad[p], k)
           e == ErrAt(p, r)
       IN IF r = "ok" THEN Return(p, RetOk)
          ELSE IF is_network_or_io_error(e)
               THEN MatchBehavior(p, e)
               ELSE Return(p, RetErr(e))
    /\ UNCHANGED <<next, selected>>
    /\ UNCHANGED buildVars
    /\ UNCHANGED healVars

\* a retry whose result is returned as it is (`return cmd.query_async(..)`)
LastRetry(p, at, k) ==
    /\ pc[p] = at
    /\ query_async(p, k)
    /\ LET r == QueryOutcome(conns[slot[p]], bad[p], k)
       IN Return(p, IF r = "ok" THEN RetOk ELSE RetErr(ErrAt(p, r)))
    /\ UNCHANGED <<next, selected>>
    /\ UNCHANGED buildVars
    /\ UNCHANGED healVars

\* a reconnect whose failure ends the call (`Err((e, _)) => return Err(e)`)
LastReconnect(p, at, r, then) ==
    /\ pc[p] = at
    /\ try_reconnect(p, r)
    /\ IF r = "ok" THEN Goto(p, then) ELSE Return(p, RetErr(ErrAt(p, r)))
    /\ UNCHANGED <<next, selected>>
    /\ UNCHANGED <<startVars, execVars>>
    /\ UNCHANGED buildVars
    /\ UNCHANGED healVars

\* tokio::time::delay_for(d.unwrap_or(Duration::from_secs(2))).await
DelayFor(p, at, then) ==
    /\ pc[p] = at
    /\ trace' = [trace EXCEPT
                    ![p] = Append(@, WaitEv(WaitSecs(reconnect_behavior.d)))]
    /\ Goto(p, then)
    /\ UNCHANGED <<conns, held, next, selected>>
    /\ UNCHANGED <<startVars, execVars>>
    /\ UNCHANGED buildVars
    /\ UNCHANGED healVars

\* InstantRetry (lines 111-116)
IrReconnect(p, r) == LastReconnect(p, "ir_reconnect", r, "ir_retry")
IrRetry(p, k) == LastRetry(p, "ir_retry", k)

\* RetryWaitRetry, first reconnect (lines 118, 143-159)
RwrReconnect1(p, r) ==
    /\ pc[p] = "rwr_reconnect1"
    /\ try_reconnect(p, r)
    /\ IF r = "ok" THEN Goto(p, "rwr_retry1")
       ELSE IF is_network_or_io_error(ErrAt(p, r))
            THEN Goto(p, "rwr_wait_b")
            ELSE Return(p, RetErr(ErrAt(p, r)))
    /\ UNCHANGED <<next, selected>>
    /\ UNCHANGED <<startVars, execVars>>
    /\ UNCHANGED buildVars
    /\ UNCHANGED healVars

\* RetryWaitRetry, first retry (lines 120-140)
RwrRetry1(p, k) ==
    /\ pc[p] = "rwr_retry1"
    /\ query_async(p, k)
    /\ LET r == QueryOutcome(conns[slot[p]], bad[p], k)
           e == ErrAt(p, r)
       IN IF r = "ok" THEN Return(p, RetOk)
          ELSE IF is_network_or_io_error(e)
               THEN Goto(p, "rwr_wait_a")
               ELSE Return(p, RetErr(e))
    /\ UNCHANGED <<next, selected>>
    /\ UNCHANGED buildVars
    /\ UNCHANGED healVars

\* RetryWaitRetry after a failed first retry (lines 125-136)
RwrWaitA(p) == DelayFor(p, "rwr_wait_a", "rwr_reconnect2a")
RwrReconnect2A(p, r) == LastReconnect(p, "rwr_reconnect2a", r, "rwr_retry2a")
RwrRetry2A(p, k) == LastRetry(p, "rwr_retry2a", k)

\* RetryWaitRetry after a failed first reconnect (lines 145-156)
RwrWaitB(p) == DelayFor(p, "rwr_wait_b", "rwr_reconnect2b")
RwrReconnect2B(p, r) == LastReconnect(p, "rwr_reconnect2b", r, "rwr_retry2b")
RwrRetry2B(p, k) == LastRetry(p, "rwr_retry2b", k)

\* the task drops the future of its call at a suspension point; what it
\* keeps of the call records the await it was dropped at
Cancel(p) ==
    /\ pc[p] \notin {"idle", "panicked"}
    /\ Return(p, [RetCancelled EXCEPT !.kind = pc[p]])
    /\ UNCHANGED <<held, conns, next, selected, trace>>
    /\ UNCHANGED <<startVars, execVars>>
    /\ UNCHANGED buildVars
    /\ UNCHANGED healVars

\* one step of the call of task p between taking the guard and returning:
\* the next await of query_cmd completes
Proceed(p) ==
    \/ \E k \in NetKinds : Query1(p, k)
    \/ \E r \in FactoryOutcomes : IrReconnect(p, r)
    \/ \E k \in NetKinds : IrRetry(p, k)
    \/ \E r \in FactoryOutcomes : RwrReconnect1(p, r)
    \/ \E k \in NetKinds : RwrRetry1(p, k)
    \/ RwrWaitA(p)
    \/ \E r \in FactoryOutcomes : RwrReconnect2A(p, r)
    \/ \E k \in NetKinds : RwrRetry2A(p, k)
    \/ RwrWaitB(p)
    \/ \E r \in FactoryOutcomes : RwrReconnect2B(p, r)
    \/ \E k \in NetKinds : RwrRetry2B(p, k)

Next ==
    \/ \E i \in DOMAIN results, r \in FactoryOutcomes : BuildConnect(i, r)
    \/ BuildFinish
    \/ \E i \in DOMAIN conns : Kill(i)
    \/ \E p \in Callers, b \in BOOLEAN : Start(p, b, GetCmd)
    \/ \E p \in Callers : Acquire(p)
    \/ \E p \in Callers, k \in NetKinds : Query1(p, k)
    \/ \E p \in Callers, r \in FactoryOutcomes : IrReconnect(p, r)
    \/ \E p \in Callers, k \in NetKinds : IrRetry(p, k)
    \/ \E p \in Callers, r \in FactoryOutcomes : RwrReconnect1(p, r)
    \/ \E p \in Callers, k \in NetKinds : RwrRetry1(p, k)
    \/ \E p \in Callers : RwrWaitA(p)
    \/ \E p \in Callers, r \in FactoryOutcomes : RwrReconnect2A(p, r)
    \/ \E p \in Callers, k \in NetKinds : RwrRetry2A(p, k)
    \/ \E p \in Callers : RwrWaitB(p)
    \/ \E p \in Callers, r \in FactoryOutcomes : RwrReconnect2B(p, r)
    \/ \E p \in Callers, k \in NetKinds : RwrRetry2B(p, k)
    \/ \E p \in Callers : Cancel(p)

Spec == Init /\ [][Next]_vars

\* between two calls the network, the service and the factory recover for
\* good: from now on no socket breaks and every factory call gives a connection
Heal ==
    /\ bpc = "built"
    /\ ~ healthy
    /\ \A p \in Callers : pc[p] = "idle"
    /\ healthy' = TRUE
    /\ healed_at' = Len(selected)
    /\ UNCHANGED <<held, conns, next, holders, selected>>
    /\ UNCHANGED <<startVars, execVars>>
    /\ UNCHANGED buildVars
    /\ UNCHANGED callVars

\* the outcomes of a factory call now
FactoryNow == IF healthy THEN {"ok"} ELSE FactoryOutcomes

\* the pool in an environment that fails for a while and then recovers
NextHeal ==
    \/ \E i \in DOMAIN results, r \in FactoryOutcomes : BuildConnect(i, r)
    \/ BuildFinish
    \/ \E i \in DOMAIN conns : ~ healthy /\ Kill(i)
    \/ Heal
    \/ \E p \in Callers, b \in BOOLEAN : Start(p, b, GetCmd)
    \/ \E p \in Callers : Acquire(p)
    \/ \E p \in Callers, k \in NetKinds : Query1(p, k)
    \/ \E p \in Callers, r \in FactoryNow : IrReconnect(p, r)
    \/ \E p \in Callers, k \in NetKinds : IrRetry(p, k)
    \/ \E p \in Callers, r \in FactoryNow : RwrReconnect1(p, r)
    \/ \E p \in Callers, k \in NetKinds : RwrRetry1(p, k)
    \/ \E p \in Callers : RwrWaitA(p)
    \/ \E p \in Callers, r \in FactoryNow : RwrReconnect2A(p, r)
    \/ \E p \in Callers, k \in NetKinds : RwrRetry2A(p, k)
    \/ \E p \in Callers : RwrWaitB(p)
    \/ \E p \in Callers, r \in FactoryNow : RwrReconnect2B(p, r)
    \/ \E p \in Callers, k \in NetKinds : RwrRetry2B(p, k)
    \/ \E p \in Callers : Cancel(p)

HealSpec == Init /\ [][NextHeal]_vars

\* a pool of n slots, all connections working, that has been in use for a
\* while: the cursor has any of its values; the calls from here on are
\* recorded in selected
UsedPool(n, cursor) ==
    /\ conns_count = [tag |-> "Global", v |-> n]
    /\ cfg_behavior = Unset
    /\ bpc = "built"
    /\ results = [i \in 0 .. n - 1 |-> "ok"]
    /\ build_err = NoError
    /\ held = n
    /\ reconnect_behavior = ResolveBehavior(Unset)
    /\ conns = [i \in 0 .. n - 1 |-> NewConn(0)]
    /\ holders = [i \in 0 .. n - 1 |-> {}]
    /\ next = cursor
    /\ pc = [p \in Callers |-> "idle"]
    /\ slot = [p \in Callers |-> -1]
    /\ bad = [p \in Callers |-> FALSE]
    /\ base = [p \in Callers |-> 0]
    /\ trace = [p \in Callers |-> <<>>]
    /\ ret = [p \in Callers |-> NoRet]
    /\ selected = <<>>
    /\ ticket = [p \in Callers |-> -1]
    /\ cmd = [p \in Callers |-> GetCmd]
    /\ store = Nil
    /\ applied = [p \in Callers |-> 0]
    /\ reply = [p \in Callers |-> Nil]
    /\ written = [p \in Callers |-> Nil]
    /\ healthy = FALSE
    /\ healed_at = 0

InitWrap == \E n \in 1 .. MaxCalls, cursor \in 0 .. CursorMod - 1 : UsedPool(n, cursor)

\* calls without failures: no socket breaks, no call is dropped
NextWrap ==
    \/ \E p \in Callers : Start(p, FALSE, GetCmd)
    \/ \E p \in Callers : Acquire(p)
    \/ \E p \in Callers, k \in NetKinds : Query1(p, k)

WrapSpec == InitWrap /\ [][NextWrap]_vars

\* the executor polls every future that can go on, and tokio's Mutex hands the
\* lock to its waiters in turn: a call that can take a step takes it, and a
\* call that waits for a lock that is free again and again gets it
Fairness ==
    \A p \in Callers : WF_vars(Proceed(p)) /\ SF_vars(Acquire(p))

FairSpec == Spec /\ Fairness

\* the pool under the policies that do not wait, used by callers that write
\* and read the key
InitKV == Init /\ cfg_behavior.kind \in {"Unset", "NoReconnect", "InstantRetry"}

NextKV ==
    \/ \E i \in DOMAIN results, r \in FactoryOutcomes : BuildConnect(i, r)
    \/ BuildFinish
    \/ \E i \in DOMAIN conns : Kill(i)
    \/ \E p \in Callers, b \in BOOLEAN, c \in Commands : Start(p, b, c)
    \/ \E p \in Callers : Acquire(p)
    \/ \E p \in Callers, k \in NetKinds : Query1(p, k)
    \/ \E p \in Callers, r \in FactoryOutcomes : IrReconnect(p, r)
    \/ \E p \in Callers, k \in NetKinds : IrRetry(p, k)
    \/ \E p \in Callers : Cancel(p)

KVSpec == InitKV /\ [][NextKV]_vars

(* ------------------------------ properties ----------------------------- *)
\* the call of task p has returned a value or an error (it was not dropped)
Returned(p) == pc[p] = "idle" /\ ret[p].status \in {"ok", "err"}

\* number of attempts of kind ev in a trace
Count(tr, ev) == Cardinality({i \in DOMAIN tr : tr[i].ev = ev})

IsCmd(tr, i, res) == i \in DOMAIN tr /\ tr[i].ev = "cmd" /\ tr[i].res = res
IsConnect(tr, i, res) ==
    i \in DOMAIN tr /\ tr[i].ev = "connect" /\ tr[i].res = res
IsWait(tr, i) == i \in DOMAIN tr /\ tr[i].ev = "wait"

\* what task p got is the outcome of attempt i of its call
ReturnsAttempt(p, i) ==
    /\ i = Len(trace[p])
    /\ IF trace[p][i].res = "ok"
       THEN ret[p] = RetOk
       ELSE /\ ret[p].status = "err"
            /\ ret[p].at = i
            /\ trace[p][i].res = IF ret[p].kind \in {"timeout", "dropped", "io"}
                                 THEN "net" ELSE "app"

\* C1: on a pool of N >= 1 slots the first N calls select N pairwise
\* distinct slots, each slot exactly once, and call N+1 selects slot 0
C1_RoundRobin ==
    (bpc = "built" /\ NumSlots >= 1) =>
        LET n == NumSlots
            firstN == (1 .. n) \cap DOMAIN selected
        IN /\ \A i, j \in firstN : i # j => selected[i] # selected[j]
           /\ \A i \in firstN : selected[i] \in 0 .. n - 1
           /\ Len(selected) >= n => {selected[i] : i \in firstN} = 0 .. n - 1
           /\ Len(selected) >= n + 1 => selected[n + 1] = 0

\* three failure-free calls on a pool of two slots have returned
C1_Witness ==
    /\ bpc = "built"
    /\ NumSlots = 2
    /\ Len(selected) = 3
    /\ \A p \in Callers : Returned(p) /\ ret[p] = RetOk /\ Len(trace[p]) = 1

\* positions at which the call holds the guard of its slot, and those of
\* the reconnect sequence (after a network-class error)
HoldingPcs ==
    {"query1", "ir_reconnect", "ir_retry", "rwr_reconnect1", "rwr_retry1",
     "rwr_wait_a", "rwr_reconnect2a", "rwr_retry2a",
     "rwr_wait_b", "rwr_reconnect2b", "rwr_retry2b"}
ReconnectPcs == HoldingPcs \ {"query1"}

C2_State ==
    /\ \A i \in DOMAIN holders : Cardinality(holders[i]) <= 1
    /\ \A p \in Callers : pc[p] \in HoldingPcs => holders[slot[p]] = {p}
    /\ \A p, q \in Callers :
          (p # q /\ pc[p] \in ReconnectPcs /\ slot[q] = slot[p])
              => pc[q] = "lock"

C2_Step ==
    \A i \in DOMAIN conns :
        \A q \in Callers :
            \* q runs a command on slot i, or the connection of i is replaced
            \* while q is in its call on i
            (/\ slot[q] = i
             /\ \/ Len(trace'[q]) > Len(trace[q])
                \/ conns'[i].gen # conns[i].gen /\ pc[q] \in HoldingPcs)
            => /\ holders[i] = {q}
               /\ \A p \in Callers \ {q} : slot[p] = i => pc[p] = "lock"

\* C2: at most one caller holds a slot's lock, every caller between its
\* first attempt and its return is that holder, and while a caller is in
\* its reconnect sequence no other caller runs a command on the slot or
\* replaces its connection
C2_MutualExclusion == []C2_State /\ [][C2_Step]_vars

\* a caller waits (RetryWaitRetry delay) and another one is queued on the
\* lock of the same slot
C2_Witness ==
    \E p, q \in Callers :
        /\ p # q
        /\ pc[p] = "rwr_wait_a"
        /\ pc[q] = "lock"
        /\ slot[q] = slot[p]

\* C3: under NoReconnect no call invokes the factory, and a call whose
\* command failed with a network-class error returned that very error
C3_NoReconnect ==
    reconnect_behavior.kind = "NoReconnect" =>
        \A p \in Callers :
            /\ Count(trace[p], "connect") = 0
            /\ IsCmd(trace[p], 1, "net") =>
                  /\ Returned(p)
                  /\ ret[p].status = "err"
                  /\ ret[p].kind \in {"timeout", "dropped", "io"}
                  /\ ret[p].at = 1
                  /\ Len(trace[p]) = 1

C3_Witness ==
    /\ reconnect_behavior.kind = "NoReconnect"
    /\ \E p \in Callers :
          /\ Returned(p)
          /\ IsCmd(trace[p], 1, "net")
          /\ ret[p].status = "err"

\* C4: under InstantRetry a call never waits and reconnects at most once;
\* a returned call whose first attempt failed with a network-class error
\* made one reconnect attempt right after it; if that succeeded the command
\* ran once more, on the new connection, and the call returned the outcome
\* of that retry; if it failed the call returned the factory's error
C4_InstantRetry ==
    reconnect_behavior.kind = "InstantRetry" =>
        \A p \in Callers :
            /\ Count(trace[p], "wait") = 0
            /\ Count(trace[p], "connect") <= 1
            /\ Count(trace[p], "cmd") <= 2
            /\ (Returned(p) /\ IsCmd(trace[p], 1, "net")) =>
                  /\ Len(trace[p]) >= 2
                  /\ trace[p][2].ev = "connect"
                  /\ IF trace[p][2].res = "ok"
                     THEN /\ Len(trace[p]) = 3
                          /\ trace[p][3].ev = "cmd"
                          /\ trace[p][3].conn = 1
                          /\ ReturnsAttempt(p, 3)
                     ELSE ReturnsAttempt(p, 2)

\* a transparent reconnect: network error, reconnect, successful retry
C4_Witness ==
    /\ reconnect_behavior.kind = "InstantRetry"
    /\ \E p \in Callers :
          /\ Returned(p)
          /\ IsCmd(trace[p], 1, "net")
          /\ IsConnect(trace[p], 2, "ok")
          /\ IsCmd(trace[p], 3, "ok")
          /\ ret[p] = RetOk

\* the first attempt of the call of p failed with a network-class error and
\* nothing else went wrong in the call
SingleNetworkError(p) ==
    /\ IsCmd(trace[p], 1, "net")
    /\ \A i \in 2 .. Len(trace[p]) : trace[p][i].res \notin {"net", "app"}

OneReconnectThenSuccess(p) ==
    /\ Count(trace[p], "connect") = 1
    /\ Count(trace[p], "wait") = 0
    /\ IsConnect(trace[p], 2, "ok")
    /\ IsCmd(trace[p], 3, "ok")
    /\ trace[p][3].conn = 1
    /\ Len(trace[p]) = 3
    /\ ret[p] = RetOk

\* C5 as stated: under every policy a single network-class error gives one
\* reconnect attempt and a successful retry
C5_AllPolicies ==
    \A p \in Callers :
        (Returned(p) /\ SingleNetworkError(p)) => OneReconnectThenSuccess(p)

\* C5, amended: under InstantRetry and RetryWaitRetry a call with a single
\* network-class error (healthy factory, healthy new connection) makes
\* exactly one reconnect attempt, retries on the new connection and succeeds
C5_SingleError ==
    reconnect_behavior.kind \in {"InstantRetry", "RetryWaitRetry"} =>
        \A p \in Callers :
            (Returned(p) /\ SingleNetworkError(p))
                => OneReconnectThenSuccess(p)

C5_Witness ==
    /\ reconnect_behavior.kind = "RetryWaitRetry"
    /\ \E p \in Callers :
          Returned(p) /\ SingleNetworkError(p) /\ OneReconnectThenSuccess(p)

\* the first attempt and the first retry of the call of p both failed with
\* network-class errors
TwoNetworkErrors(p) ==
    IsCmd(trace[p], 1, "net") /\ IsCmd(trace[p], 3, "net")

\* two reconnect attempts, and one wait of the configured delay (2 seconds
\* when none is configured) between them
TwoReconnectsOneWait(p) ==
    /\ Count(trace[p], "connect") = 2
    /\ Count(trace[p], "wait") = 1
    /\ trace[p][2].ev = "connect"
    /\ IsWait(trace[p], 4)
    /\ trace[p][4].secs = IF reconnect_behavior.d.some
                          THEN reconnect_behavior.d.secs
                          ELSE DefaultWaitSecs
    /\ Len(trace[p]) >= 5
    /\ trace[p][5].ev = "connect"

\* C6 as stated: after the wait and the second reconnect the command is
\* always retried once more and the result of that retry is returned
C6_AlwaysThirdAttempt ==
    reconnect_behavior.kind = "RetryWaitRetry" =>
        \A p \in Callers :
            (Returned(p) /\ TwoNetworkErrors(p)) =>
                /\ TwoReconnectsOneWait(p)
                /\ Len(trace[p]) = 6
                /\ trace[p][6].ev = "cmd"
                /\ ReturnsAttempt(p, 6)

\* C6, amended: two reconnect attempts with one wait of d (default 2 s)
\* between them; the command is retried once more, and that result
\* returned, when the second reconnect succeeds; when it fails the call
\* returns the factory's error without a third attempt
C6_RetryWaitRetry ==
    reconnect_behavior.kind = "RetryWaitRetry" =>
        \A p \in Callers :
            (Returned(p) /\ TwoNetworkErrors(p)) =>
                /\ TwoReconnectsOneWait(p)
                /\ Count(trace[p], "cmd") <= 3
                /\ IF trace[p][5].res = "ok"
                   THEN /\ Len(trace[p]) = 6
                        /\ trace[p][6].ev = "cmd"
                        /\ trace[p][6].conn = 2
                        /\ ReturnsAttempt(p, 6)
                   ELSE ReturnsAttempt(p, 5)

C6_Witness ==
    /\ reconnect_behavior.kind = "RetryWaitRetry"
    /\ reconnect_behavior.d.some
    /\ \E p \in Callers :
          /\ Returned(p)
          /\ TwoNetworkErrors(p)
          /\ IsConnect(trace[p], 5, "ok")
          /\ IsCmd(trace[p], 6, "net")
          /\ ret[p].status = "err"

\* C7: a command attempt that fails with a non-network error is the last
\* attempt of its call, which has returned that error: no reconnect and no
\* wait follow it, under any policy
C7_ApplicationError ==
    \A p \in Callers :
        \A i \in DOMAIN trace[p] :
            IsCmd(trace[p], i, "app") =>
                /\ i = Len(trace[p])
                /\ pc[p] = "idle"
                /\ ret[p].status = "err"
                /\ ret[p].at = i
                /\ ret[p].kind \notin {"timeout", "dropped", "io"}

\* a retry on a new connection was answered with a non-network error
C7_Witness ==
    \E p \in Callers :
        /\ Returned(p)
        /\ IsCmd(trace[p], 1, "net")
        /\ IsConnect(trace[p], 2, "ok")
        /\ IsCmd(trace[p], 3, "app")
        /\ ret[p].status = "err"

\* under InstantRetry a failed reconnect ends the call with its error
FailedReconnectEndsInstantRetry ==
    reconnect_behavior.kind = "InstantRetry" =>
        \A p \in Callers :
            (/\ Returned(p)
             /\ 2 \in DOMAIN trace[p]
             /\ trace[p][2].ev = "connect"
             /\ trace[p][2].res # "ok")
                => ReturnsAttempt(p, 2)

\* the call of p waited after its failed first reconnect, reconnected again
\* and, if that succeeded, retried the command once
WaitThenSecondReconnect(p) ==
    /\ IsWait(trace[p], 3)
    /\ Len(trace[p]) >= 4
    /\ trace[p][4].ev = "connect"
    /\ IF trace[p][4].res = "ok"
       THEN /\ Len(trace[p]) = 5
            /\ trace[p][5].ev = "cmd"
            /\ trace[p][5].conn = 1
            /\ ReturnsAttempt(p, 5)
       ELSE ReturnsAttempt(p, 4)

C9_LockReleased ==
    /\ \A p \in Callers :
          pc[p] \in {"idle", "panicked"} =>
              \A i \in DOMAIN holders : p \notin holders[i]
    /\ (\A p \in Callers : pc[p] \in {"idle", "panicked"}) =>
          \A i \in DOMAIN holders : holders[i] = {}

\* no call is in progress, one returned success, one a non-network error
\* and the last one gave up after its retries
C9_Witness ==
    /\ \A p \in Callers : pc[p] = "idle"
    /\ \A i \in DOMAIN holders : holders[i] = {}
    /\ \E p \in Callers :
          Returned(p) /\ Len(trace[p]) = 6 /\ ret[p].status = "err"

\* no call was ever started on the pool
FreshPool ==
    bpc = "built" /\ \A p \in Callers : pc[p] = "idle" /\ ret[p] = NoRet

\* C10: build invokes the factory once per configured connection whatever
\* the policy; when all succeed the pool has that many slots and cursor 0;
\* when one fails build returns the error of the first failing attempt,
\* there is no pool and no connection stays held
C10_BuildAllOrNothing ==
    LET n == IF conns_count.tag = "Global"
             THEN conns_count.v ELSE NumCpus * conns_count.v
        done == {i \in DOMAIN results : results[i] # "pending"}
        failed == {i \in DOMAIN results : results[i] \notin {"pending", "ok"}}
    IN /\ DOMAIN results = 0 .. n - 1
       /\ bpc # "building" => Cardinality(done) = n
       /\ bpc = "built" =>
             /\ failed = {}
             /\ NumSlots = n
             /\ held = n
             /\ build_err = NoError
       /\ FreshPool => next = 0
       /\ bpc = "failed" =>
             /\ failed # {}
             /\ \A j \in failed : build_err.at <= j
             /\ build_err.at \in failed
             /\ build_err.kind = results[build_err.at]
             /\ conns = <<>>
             /\ held = 0
       /\ (bpc = "building" /\ failed = {}) => build_err = NoError

\* a build in which one connection was opened and another attempt failed
C10_Witness ==
    /\ bpc = "failed"
    /\ \E i, j \in DOMAIN results : results[i] = "ok" /\ results[j] = "io"
    /\ held = 0

(* ----------------------- empty pools and blocking ---------------------- *)
\* C11: a build with a connection count of 0 fails: no pool is returned and
\* nothing is opened, so every pool that exists has at least one slot and
\* every call on it computes a valid index (no call dies on the remainder)
C11_ZeroCountFails ==
    LET n == IF conns_count.tag = "Global"
             THEN conns_count.v ELSE NumCpus * conns_count.v
    IN /\ (n = 0 /\ bpc # "building") =>
             bpc = "failed" /\ conns = <<>> /\ held = 0
       /\ bpc = "built" => NumSlots >= 1
       /\ \A p \in Callers :
             /\ pc[p] # "panicked"
             /\ pc[p] # "idle" => slot[p] \in DOMAIN conns

\* the slots on which task p holds a guard
GuardsOf(p) == {i \in DOMAIN holders : p \in holders[i]}

\* task p is in a call and cannot take a step
Blocked(p) ==
    /\ pc[p] \notin {"idle", "panicked"}
    /\ ~ ENABLED Acquire(p)
    /\ ~ ENABLED Proceed(p)

\* C12: callers on different slots never block each other and the pool has
\* no deadlock: a caller is blocked only while it waits for the lock of the
\* slot it selected and another caller holds that lock; a caller holds at
\* most one guard, none while it waits, and whoever holds a guard can always
\* take its next step, whatever goes on on the other slots
C12_State ==
    \A p \in Callers :
        /\ Cardinality(GuardsOf(p)) <= 1
        /\ GuardsOf(p) # {} => pc[p] \in HoldingPcs /\ GuardsOf(p) = {slot[p]}
        /\ pc[p] = "lock" => GuardsOf(p) = {}
        /\ Blocked(p) =>
              /\ pc[p] = "lock"
              /\ \E q \in Callers \ {p} :
                    /\ holders[slot[p]] = {q}
                    /\ slot[q] = slot[p]
                    /\ ~ Blocked(q)
        /\ (pc[p] = "lock" /\ holders[slot[p]] = {}) => ENABLED Acquire(p)
        /\ pc[p] \in HoldingPcs => ENABLED Proceed(p)

\* a step of a call on one slot leaves the callers of the other slots where
\* they are, no more and no less able to go on
C12_Step ==
    \A p, q \in Callers :
        (p # q /\ pc[p] # "idle" /\ pc'[p] # pc[p]
              /\ slot[q] \in DOMAIN conns /\ slot[q] # slot[p]) =>
            /\ pc'[q] = pc[q] /\ slot'[q] = slot[q]
            /\ holders'[slot[q]] = holders[slot[q]]

C12_NoCrossBlocking == []C12_State /\ [][C12_Step]_vars

\* one caller sleeps in the middle of its reconnect sequence on one slot
\* while another caller, who came later, is served by a different slot
C12_Witness ==
    \E p, q \in Callers :
        /\ pc[p] \in {"rwr_wait_a", "rwr_wait_b"}
        /\ pc[q] \in HoldingPcs
        /\ slot[q] # slot[p]
        /\ trace[q] # <<>>

(* -------------------------------- frame -------------------------------- *)
\* C13: a call changes nothing of the pool but the cursor, by one increment
\* at its start, and the connection of the one slot it selected, which only
\* the holder of that slot's guard replaces; the connections of the other
\* slots, the number of slots and the policy stay as they are, also while a
\* reconnect goes on
C13_Step ==
    bpc = "built" =>
        /\ DOMAIN conns' = DOMAIN conns
        /\ DOMAIN holders' = DOMAIN holders
        /\ reconnect_behavior' = reconnect_behavior
        /\ next' # next =>
              /\ next' = (next + 1) % (2 ^ CursorBits)
              /\ conns' = conns /\ holders' = holders
              /\ \E p \in Callers :
                    /\ pc[p] = "idle" /\ pc'[p] \in {"lock", "panicked"}
                    /\ \A q \in Callers \ {p} : pc'[q] = pc[q]
        /\ \A i \in DOMAIN conns :
              conns'[i].gen # conns[i].gen =>
                  /\ \E p \in Callers :
                        /\ holders[i] = {p}
                        /\ slot[p] = i
                        /\ pc[p] \in ReconnectPcs
                        /\ trace'[p] # trace[p]
                  /\ conns'[i] = [gen |-> conns[i].gen + 1, state |-> "up"]
                  /\ \A j \in DOMAIN conns \ {i} : conns'[j] = conns[j]
        /\ \A i \in DOMAIN conns :
              (conns'[i] # conns[i] /\ conns'[i].gen = conns[i].gen) =>
                  \* the socket broke: no step of a call
                  /\ conns[i].state = "up" /\ conns'[i].state = "down"
                  /\ pc' = pc /\ trace' = trace /\ ret' = ret /\ next' = next

C13_Frame == [][C13_Step]_vars

\* a call has replaced the connection of one slot while the broken
\* connection of another slot is still the one the build opened
C13_Witness ==
    \E i, j \in DOMAIN conns :
        /\ i # j
        /\ conns[i].gen >= 1
        /\ conns[j] = [gen |-> 0, state |-> "down"]
        /\ next >= 1

(* ----------------------------- cancellation ---------------------------- *)
\* the tasks whose last call was dropped at the await l
DroppedAt(l) ==
    {p \in Callers : pc[p] = "idle" /\ ret[p].status = "cancelled"
                                     /\ ret[p].kind = l}

\* the step in which the call of task p is dropped at one of the awaits ls
Drops(p, ls) == pc[p] \in ls /\ pc'[p] = "idle" /\ ret'[p].status = "cancelled"

\* C14 as stated: a caller cancelled while it waits for its slot's lock has
\* not altered the pool: no connection and no lock changes, and the cursor
\* is what it would be had the call never been started, so it does not
\* count the calls that were dropped at the lock
C14_CancelledWaiterUndone ==
    /\ [][\A p \in Callers :
             Drops(p, {"lock"}) => conns' = conns /\ holders' = holders]_vars
    /\ [](bpc = "built" /\ NumSlots >= 1 =>
             next <= Len(selected) - Cardinality(DroppedAt("lock")))

\* C14, amended: a caller cancelled while it waits for its slot's lock has
\* altered nothing of the pool but the cursor: every connection and every
\* lock is as it was, the caller holds no guard, and the cursor keeps the
\* increment the call made when it started, so it counts every call
\* started, dropped or not
C14_CancelledWaiter ==
    /\ [][\A p \in Callers :
             Drops(p, {"lock"}) =>
                 /\ conns' = conns /\ holders' = holders
                 /\ next' = next /\ selected' = selected
                 /\ \A i \in DOMAIN holders : p \notin holders'[i]]_vars
    /\ [](bpc = "built" /\ NumSlots >= 1 =>
             next = Len(selected) % (2 ^ CursorBits))

\* a call was dropped while it waited for the lock of the only slot, which
\* another caller holds in the middle of its reconnect sequence
C14_Witness ==
    \E p \in DroppedAt("lock"), q \in Callers :
        /\ NumSlots = 1
        /\ holders[0] = {q}
        /\ pc[q] \in ReconnectPcs
        /\ next = 2

\* number of factory calls of a call's trace that gave a connection
Established(tr) ==
    Cardinality({i \in DOMAIN tr : tr[i].ev = "connect" /\ tr[i].res = "ok"})

\* C15: a caller cancelled at any await of the reconnect sequence (a factory
\* call, a wait, a retry) leaves its slot with a whole connection, the one
\* it found when it took the lock or the last one the factory handed over
\* completely, never something in between, and leaves the slot's lock free
C15_Step ==
    \A p \in Callers :
        Drops(p, ReconnectPcs) =>
            LET i == slot[p] IN
            /\ conns' = conns
            /\ conns[i].state \in {"up", "down"}
            /\ conns[i].gen = base[p] + Established(trace[p])
            /\ Established(trace[p]) = 0 => conns[i].gen = base[p]
            /\ holders[i] = {p} /\ holders'[i] = {}
            /\ \A j \in DOMAIN holders \ {i} : holders'[j] = holders[j]

C15_CancelMidReconnect == [][C15_Step]_vars

\* one call was dropped during the retry that follows a successful
\* reconnect, another during the wait that follows a failed one
C15_Witness ==
    \E p, q \in Callers, i \in DOMAIN conns :
        /\ p \in DroppedAt("rwr_retry1")
        /\ q \in DroppedAt("rwr_wait_b")
        /\ IsConnect(trace[q], 2, "net")
        /\ conns[i].gen = 1
        /\ \A j \in DOMAIN holders : holders[j] = {}

(* ------------------------ persistence of policies ---------------------- *)
\* the call of task p has returned a network-class error
ReturnedNetworkError(p) ==
    /\ Returned(p)
    /\ ret[p].status = "err"
    /\ ret[p].kind \in {"timeout", "dropped", "io"}

C17_State ==
    reconnect_behavior.kind = "NoReconnect" =>
        /\ \A i \in DOMAIN conns : conns[i].gen = 0
        /\ \A p \in Callers : Count(trace[p], "connect") = 0

C17_Step ==
    reconnect_behavior.kind = "NoReconnect" =>
        /\ \A i \in DOMAIN conns :
              conns[i].state = "down" => conns'[i] = conns[i]
        /\ \A p \in Callers :
              (/\ pc[p] \in HoldingPcs
               /\ conns[slot[p]].state = "down"
               /\ pc'[p] # pc[p]
               /\ ret'[p].status # "cancelled") =>
                  /\ pc'[p] = "idle"
                  /\ ret'[p].status = "err"
                  /\ ret'[p].kind \in {"timeout", "dropped", "io"}
                  /\ Len(trace'[p]) = 1
                  /\ IsCmd(trace'[p], 1, "net")

C17_NoRecovery == []C17_State /\ [][C17_Step]_vars

\* under NoReconnect two calls, one after the other, have come back with a
\* network-class error from the only slot, whose first connection is broken
C17_Witness ==
    /\ reconnect_behavior.kind = "NoReconnect"
    /\ NumSlots = 1
    /\ conns[0] = [gen |-> 0, state |-> "down"]
    /\ selected = <<0, 0, 0>>
    /\ \A p \in Callers : ReturnedNetworkError(p)

(* ------------------------- the service behind ------------------------- *)
\* no attempt of the last call of task p failed
FailureFree(p) ==
    /\ trace[p] # <<>>
    /\ \A i \in DOMAIN trace[p] : trace[p][i].res \notin {"net", "app"}

\* C18: a caller that completes SET k v and then GET k, with no other write
\* of k in between, reads v, whatever the size of the pool and whichever
\* slots serve the two commands; and the service has executed a command
\* exactly once when the call that carried it returned without any failure
C18_ReadYourWrite ==
    \A p \in Callers :
        /\ (Returned(p) /\ ret[p].status = "ok" /\ cmd[p].op = "get"
                /\ written[p] # "nil") =>
              reply[p] = written[p]
        /\ (Returned(p) /\ ret[p].status = "ok" /\ cmd[p].op = "set") =>
              /\ written[p] \in {cmd[p].v, "nil"}
              /\ written[p] = cmd[p].v => store = cmd[p].v
        /\ (Returned(p) /\ FailureFree(p)) =>
              /\ ret[p].status = "ok"
              /\ applied[p] = 1
              /\ Len(trace[p]) = 1

\* on a pool of two slots one caller has set the key through slot 0 and
\* then read the value it wrote through slot 1
C18_Witness ==
    \E p \in Callers :
        /\ NumSlots = 2
        /\ selected = <<0, 1>>
        /\ \A q \in Callers \ {p} : ticket[q] = -1
        /\ Returned(p) /\ ret[p].status = "ok"
        /\ cmd[p].op = "get"
        /\ written[p] = "b"
        /\ reply[p] = "b"
        /\ FailureFree(p)

(* ------------------------------ termination ---------------------------- *)
\* the most attempts of each kind a call makes under the policy of the pool
MaxOf(ev) ==
    LET k == reconnect_behavior.kind IN
    IF ev = "cmd"
    THEN (IF k = "NoReconnect" THEN 1 ELSE IF k = "InstantRetry" THEN 2 ELSE 3)
    ELSE IF ev = "connect"
    THEN (IF k = "NoReconnect" THEN 0 ELSE IF k = "InstantRetry" THEN 1 ELSE 2)
    ELSE (IF k = "RetryWaitRetry" THEN 1 ELSE 0)

C19_Bounds ==
    \A p \in Callers :
        /\ Count(trace[p], "cmd") <= MaxOf("cmd")
        /\ Count(trace[p], "connect") <= MaxOf("connect")
        /\ Count(trace[p], "wait") <= MaxOf("wait")
        /\ Len(trace[p]) <= MaxOf("cmd") + MaxOf("connect") + MaxOf("wait")

\* C19: once it holds its slot's lock a call ends within a fixed number of
\* steps: at most 1 attempt of the command, 0 reconnects and 0 waits under
\* NoReconnect, at most 2, 1 and 0 under InstantRetry, at most 3, 2 and 1
\* under RetryWaitRetry; and when the locks are fair every call that was
\* started eventually returns
C19_Terminates ==
    /\ []C19_Bounds
    /\ \A p \in Callers : (pc[p] # "idle") ~> (pc[p] = "idle")

(* -------------------------------- cursor ------------------------------- *)
\* number of calls started so far (a call on a pool without slots stops
\* before it has an index)
CallsStarted ==
    Len(selected) + Cardinality({p \in Callers : pc[p] = "panicked"})

\* number of calls that were given slot i
Assigned(i) == Cardinality({n \in DOMAIN selected : selected[n] = i})

\* C20: a call claims exactly one cursor value: the cursor advances by one
\* when a call starts and at no other moment, whatever the outcome, the
\* policy and the retries, which all stay on the slot selected at the start;
\* callers that are in a call at the same time hold different cursor
\* values; after k calls were started the cursor is k (k below the number
\* of values of the cursor, 2^CursorBits here), and the numbers of calls
\* given to any two slots differ by at most 1
C20_State ==
    bpc = "built" =>
        /\ next = CallsStarted
        /\ \A p \in Callers :
              pc[p] # "idle" =>
                  /\ ticket[p] \in 0 .. next - 1
                  /\ pc[p] # "panicked" =>
                        slot[p] = ticket[p] % Cardinality(DOMAIN conns)
        /\ \A p, q \in Callers :
              (p # q /\ pc[p] # "idle" /\ pc[q] # "idle") =>
                  ticket[p] # ticket[q]
        /\ \A i, j \in DOMAIN conns :
              /\ Assigned(i) - Assigned(j) <= 1
              /\ Assigned(j) - Assigned(i) <= 1

C20_Step ==
    /\ next' # next =>
          /\ next' = next + 1
          /\ \E p \in Callers :
                /\ pc[p] = "idle" /\ pc'[p] # "idle"
                /\ ticket'[p] = next
                /\ \A q \in Callers \ {p} : pc'[q] = pc[q]
    /\ \A p \in Callers :
          /\ (pc[p] = "idle" /\ pc'[p] # "idle") => next' # next
          /\ (pc[p] # "idle" /\ pc'[p] # "idle") =>
                slot'[p] = slot[p] /\ ticket'[p] = ticket[p]
          /\ (pc[p] # "idle" /\ pc'[p] = "idle") => ticket'[p] = ticket[p]

C20_OneCursorValuePerCall == []C20_State /\ [][C20_Step]_vars

\* three calls were started on a pool of two slots; two of them are under
\* way at once, one of them in its second reconnect, on the slot of its
\* cursor value
C20_Witness ==
    \E p, q \in Callers :
        /\ p # q
        /\ NumSlots = 2
        /\ selected = <<0, 1, 0>>
        /\ next = 3
        /\ pc[p] \in {"rwr_reconnect2a", "rwr_reconnect2b"}
        /\ pc[q] \in HoldingPcs
        /\ ticket[p] = 1 /\ slot[p] = 1
        /\ ticket[q] = 2 /\ slot[q] = 0

(* ------------------------------ reconnects ----------------------------- *)
\* the step in which a factory call of task p ends with outcome class res
FactoryAnswers(p, res) ==
    /\ Len(trace'[p]) = Len(trace[p]) + 1
    /\ trace'[p][Len(trace'[p])].ev = "connect"
    /\ trace'[p][Len(trace'[p])].res \in res

\* C21: a reconnect attempt that fails leaves the slot as it was: the slot
\* still has the connection it had before the attempt and no other slot
\* changes, and a caller that goes on still holds the lock of the same slot;
\* the connection of a slot is replaced only in the step in which a factory
\* call of the holder of its lock succeeds
C21_Step ==
    /\ \A p \in Callers :
          FactoryAnswers(p, {"net", "app"}) =>
              /\ holders[slot[p]] = {p}
              /\ conns' = conns
              /\ pc'[p] # "idle" =>
                    /\ slot'[p] = slot[p]
                    /\ holders'[slot[p]] = {p}
                    /\ pc'[p] = "rwr_wait_b"
              /\ pc'[p] = "idle" =>
                    /\ ret'[p].status = "err"
                    /\ ret'[p].at = Len(trace'[p])
    /\ \A i \in DOMAIN conns :
          (bpc = "built" /\ conns'[i].gen # conns[i].gen) =>
              \E p \in Callers :
                  /\ slot[p] = i
                  /\ holders[i] = {p}
                  /\ FactoryAnswers(p, {"ok"})
                  /\ conns'[i] = [gen |-> conns[i].gen + 1, state |-> "up"]

C21_FailedReconnect == [][C21_Step]_vars

\* after a failed first reconnect a caller waits, holding the lock of its
\* slot, whose connection is still the broken one it found
C21_Witness ==
    \E p \in Callers :
        /\ pc[p] = "rwr_wait_b"
        /\ Len(trace[p]) = 2
        /\ IsCmd(trace[p], 1, "net")
        /\ IsConnect(trace[p], 2, "net")
        /\ holders[slot[p]] = {p}
        /\ conns[slot[p]] = [gen |-> base[p], state |-> "down"]

\* the last call of task p was started after the recovery, has returned,
\* and none of its attempts was rejected by the service
ReturnedAfterHeal(p) ==
    /\ healthy
    /\ Returned(p)
    /\ ticket[p] >= healed_at
    /\ \A i \in DOMAIN trace[p] : trace[p][i].res # "app"

\* C22: under InstantRetry and RetryWaitRetry the pool heals itself: whatever
\* calls came before, also calls that used up their policy, returned a
\* network error and left a broken connection in the slot, a call made
\* once the factory and the service are healthy returns success, after one
\* reconnect if it found its slot broken, and from then on the slot holds
\* a working connection
C22_SelfHealing ==
    reconnect_behavior.kind \in {"InstantRetry", "RetryWaitRetry"} =>
        \A p \in Callers :
            ReturnedAfterHeal(p) =>
                LET i == ticket[p] % Cardinality(DOMAIN conns) IN
                /\ ret[p].status = "ok"
                /\ conns[i].state = "up"
                /\ \/ /\ Len(trace[p]) = 1
                      /\ IsCmd(trace[p], 1, "ok")
                   \/ /\ Len(trace[p]) = 3
                      /\ IsCmd(trace[p], 1, "net")
                      /\ IsConnect(trace[p], 2, "ok")
                      /\ IsCmd(trace[p], 3, "ok")
                      /\ trace[p][3].conn = 1
                      /\ conns[i].gen >= 1

\* on a pool of one slot a call used up RetryWaitRetry and returned a
\* network error; after the recovery the next call found the slot broken,
\* reconnected and returned success
C22_Witness ==
    \E p, q \in Callers :
        /\ reconnect_behavior.kind = "RetryWaitRetry"
        /\ NumSlots = 1
        /\ ReturnedNetworkError(q)
        /\ ticket[q] < healed_at
        /\ Count(trace[q], "connect") = 2
        /\ ReturnedAfterHeal(p)
        /\ Len(trace[p]) = 3
        /\ IsCmd(trace[p], 1, "net")
        /\ ret[p].status = "ok"
        /\ conns[0].state = "up"

(* --------------------------- cursor overflow --------------------------- *)
\* the windows of NumSlots consecutive selections recorded so far, each by
\* the position of its first selection
Windows == {i \in 1 .. Len(selected) : i + NumSlots - 1 <= Len(selected)}

\* the slots of the window that starts at i are pairwise distinct
DistinctWindow(i) ==
    \A a, b \in i .. i + NumSlots - 1 : a # b => selected[a] # selected[b]

\* the cursor value that selection a was computed from: the cursor has
\* advanced by one with each selection since
CursorOf(a) ==
    (next + 2 ^ CursorBits - (Len(selected) - a + 1)) % (2 ^ CursorBits)

\* the cursor went from its largest value to 0 inside the window at i
WrapsIn(i) ==
    \E a \in i .. i + NumSlots - 2 : CursorOf(a) = 2 ^ CursorBits - 1

\* C23 as stated: with a cursor of w bits that wraps modulo 2^w, for every
\* pool size N >= 1 and every start value of the cursor, any N consecutive
\* selections without failures hit N pairwise distinct slots, also when the
\* cursor wraps from 2^w - 1 to 0 inside the window
C23_DistinctAcrossWrap == \A i \in Windows : DistinctWindow(i)

\* C23, amended: every selection is the slot cursor mod N of the wrapping
\* cursor; N consecutive selections hit N pairwise distinct slots in every
\* window in which the cursor does not wrap, and also across the wrap when
\* N divides 2^w; when N does not divide 2^w the selection after the wrap
\* starts again at slot 0 and the window across the wrap repeats a slot
C23_DistinctUnlessWrap ==
    /\ \A a \in DOMAIN selected :
          /\ selected[a] = CursorOf(a) % NumSlots
          /\ CursorOf(a) = 0 => selected[a] = 0
    /\ \A i \in Windows :
          /\ ~ WrapsIn(i) => DistinctWindow(i)
          /\ (2 ^ CursorBits) % NumSlots = 0 => DistinctWindow(i)
          /\ (WrapsIn(i) /\ (2 ^ CursorBits) % NumSlots # 0) =>
                ~ DistinctWindow(i)

\* on a pool of two slots the cursor wrapped between the second and the
\* third selection, and the selections went on alternating
C23_Witness ==
    /\ NumSlots = 2
    /\ next = 1
    /\ selected = <<0, 1, 0>>
    /\ ~ WrapsIn(1) /\ WrapsIn(2)
    /\ DistinctWindow(2)
    /\ \A p \in Callers : pc[p] = "idle" /\ ret[p].status = "ok"

====
